---- MODULE Spec2Model ----
(***************************************************************************)
(* A model of sphinx_last_updated_by_git.py: the git-log parser            *)
(* (update_file_dates / parse_log), the result assembly of _env_updated,   *)
(* and the per-document store with its Sphinx event handlers.              *)
(*                                                                         *)
(* Python values are represented as follows.                               *)
(*   bytes / ASCII str : a sequence of byte values (b'a\0' is <<97, 0>>)   *)
(*   tuple, list       : a sequence of its items                           *)
(*   None              : the empty sequence (no empty bytes, tuple or list *)
(*                       is ever stored where None may be stored)          *)
(*   dict              : a function, or an association list where the      *)
(*                       code depends on the insertion order               *)
(***************************************************************************)
EXTENDS FiniteSets, Integers, Sequences, TLC

VARIABLES
    frame,            \* the activation of update_file_dates being stepped
    git,              \* the git repository that activation talks to
    config,           \* app.config
    dependencies,     \* env.dependencies: docname -> its dependency paths
    git_last_updated, \* env.git_last_updated, in insertion order
    eu,               \* the latest activation of _env_updated
    context,          \* the context of the latest html-page-context call
    other             \* other.git_last_updated: the store of the
                      \* environment of each parallel read process

vars ==
    <<frame, git, config, dependencies, git_last_updated, eu, context, other>>

----------------------------------------------------------------------------
(* Bounds of the model. *)

\* The longest history a repository of the model holds.
MaxCommits == 3

\* The number of settings a configuration changes from their defaults.
MaxSettings == 2

\* The commits in the history a call made by _env_updated may see.
MaxHistory == 1

----------------------------------------------------------------------------
(* Bytes. *)

None == <<>>

NUL == 0
LF == 10
SP == 32

\* The bytes that bytes.rstrip() with no argument strips.
Whitespace == {9, 10, 11, 12, 13, 32}

Range(s) == {s[i] : i \in DOMAIN s}

Min(S) == CHOOSE x \in S : \A y \in S : x <= y

\* bytes.rstrip(chars)
rstrip(b, chars) ==
    LET k == CHOOSE k \in 0..Len(b) :
                 /\ \A j \in (k + 1)..Len(b) : b[j] \in chars
                 /\ (k = 0 \/ b[k] \notin chars)
    IN  SubSeq(b, 1, k)

\* bytes.endswith(c) for a single byte c
endswith(b, c) == Len(b) > 0 /\ b[Len(b)] = c

\* bytes.split(sep) for a single byte sep: b''.split(sep) is [b''].
split(b, sep) ==
    LET P == {i \in 1..Len(b) : b[i] = sep}
        nth(n) == IF n = 0 THEN 0
                  ELSE IF n > Cardinality(P) THEN Len(b) + 1
                  ELSE CHOOSE i \in P : Cardinality({j \in P : j < i}) = n - 1
    IN  [n \in 1..(Cardinality(P) + 1) |->
            SubSeq(b, nth(n - 1) + 1, nth(n) - 1)]

\* stream.readline() of a stream of which pos bytes were read: the bytes up
\* to and including the next LF, or the rest at the end of the stream.
readline(stream, pos) ==
    LET ends == {i \in (pos + 1)..Len(stream) : stream[i] = LF}
    IN  IF ends = {} THEN SubSeq(stream, pos + 1, Len(stream))
        ELSE SubSeq(stream, pos + 1, Min(ends))

\* x < y for bytes (and for ASCII str): lexicographic on the byte values.
BytesLess(x, y) ==
    \E i \in 1..(Len(y)) :
        /\ i <= Len(x) + 1
        /\ \A j \in 1..(i - 1) : x[j] = y[j]
        /\ (i = Len(x) + 1 \/ x[i] < y[i])

\* int(b) for decimal digits b
RECURSIVE int(_)
int(b) == IF b = <<>> THEN 0
          ELSE 10 * int(SubSeq(b, 1, Len(b) - 1)) + (b[Len(b)] - 48)

\* The concatenation of a sequence of byte strings.
RECURSIVE Concat(_)
Concat(ss) == IF ss = <<>> THEN <<>> ELSE Head(ss) \o Concat(Tail(ss))

\* The byte strings of a set in ascending order.
RECURSIVE Sorted(_)
Sorted(S) ==
    IF S = {} THEN <<>>
    ELSE LET m == CHOOSE x \in S : \A y \in S : y = x \/ BytesLess(x, y)
         IN  <<m>> \o Sorted(S \ {m})

----------------------------------------------------------------------------
(* The git repository behind one directory, as the three git commands of  *)
(* update_file_dates see it.                                               *)
(*   found     : the git executable exists (else FileNotFoundError)        *)
(*   ls_status : exit status of git ls-tree                                *)
(*   tracked   : the file names of the directory that HEAD holds           *)
(*   history   : the commits git log walks, in --author-date-order; a      *)
(*               commit is [timestamp, hash, parents, author, files] with  *)
(*               parents the space-separated parent hashes (%P)            *)
(*   log_status: exit status of git log when it runs to its end; a git     *)
(*               log that fails writes nothing to its stdout               *)
(*   shallow   : the answer of git rev-parse --is-shallow-repository       *)
(*   stderr    : what a failing git command writes to its stderr           *)

IsMerge(c) == SP \in Range(c.parents)

\* git ls-tree --name-only -z HEAD -- <requested>: the tracked names among
\* the requested ones, each terminated by NUL.
LsTreeOutput(g, requested) ==
    Concat([i \in 1..Cardinality(g.tracked \cap requested) |->
                Sorted(g.tracked \cap requested)[i] \o <<NUL>>])

\* %at%x00%H%x00%P%x00%aN
Header(c) ==
    c.timestamp \o <<NUL>> \o c.hash \o <<NUL>> \o c.parents \o <<NUL>>
        \o c.author

\* The file names of commit c that the pathspec selects.
Selected(c, requested) == SelectSeq(c.files, LAMBDA f : f \in requested)

\* Whether git log prints a file list for c: a merge commit has none
\* unless -m is given.
HasFileList(c, show_merge_commits) == ~IsMerge(c) \/ show_merge_commits

\* One commit of the output of
\*   git log --pretty=format:%n%at%x00%H%x00%P%x00%aN --name-only -z:
\* the format, then for a commit with a file list a newline and the names,
\* each terminated by NUL.
Block(c, requested, show_merge_commits) ==
    <<LF>> \o Header(c) \o
    (IF HasFileList(c, show_merge_commits)
     THEN <<LF>> \o Concat([i \in 1..Len(Selected(c, requested)) |->
                                Selected(c, requested)[i] \o <<NUL>>])
     ELSE <<>>)

\* The output of git log -- <requested>: the commits touching a requested
\* file, separated by NUL (-z).
GitLogOutput(g, requested, show_merge_commits) ==
    LET shown == SelectSeq(g.history,
                           LAMBDA c : Selected(c, requested) # <<>>)
    IN  IF g.log_status # 0 THEN <<>>
        ELSE
        Concat([i \in 1..Len(shown) |->
                   (IF i > 1 THEN <<NUL>> ELSE <<>>)
                   \o Block(shown[i], requested, show_merge_commits)])

\* The output of git rev-parse --is-shallow-repository.
IsShallowOutput(g) ==
    IF g.shallow THEN <<116, 114, 117, 101, LF>>
    ELSE <<102, 97, 108, 115, 101, LF>>

----------------------------------------------------------------------------
(* update_file_dates and parse_log, one step at a time.  A frame holds the *)
(* arguments and locals of one call:                                       *)
(*   pc              : where the call is                                   *)
(*   file_dates      : the caller's dict, file name -> None or             *)
(*                     (timestamp, too_shallow, author)                    *)
(*   requested_files : the set of files still to resolve                   *)
(*   stream, pos     : the stdout of git log and the bytes read from it    *)
(*   pending_header  : None, or <<line>> holding the header read ahead     *)
(*   procs           : the git subprocesses started so far                 *)
(*   log_args        : the files passed to git log                         *)
(*   warnings        : the subtypes of the warnings logged                 *)
(*   exc, stderr     : the exception the call raised, if any, and the      *)
(*                     diagnostic text a CalledProcessError carries        *)

NewFrame(exclude_commits, file_dates, show_merge_commits) ==
    [pc |-> "ls_tree", file_dates |-> file_dates,
     exclude_commits |-> exclude_commits,
     show_merge_commits |-> show_merge_commits,
     requested_files |-> DOMAIN file_dates,
     stream |-> <<>>, pos |-> 0, pending_header |-> None,
     procs |-> <<>>, log_args |-> {}, warnings |-> <<>>, exc |-> "none",
     stderr |-> None]

Raise(f, e) == [f EXCEPT !.pc = "raised", !.exc = e]

\* subprocess.CalledProcessError of a command run with stderr=PIPE
CalledProcessError(f, g) ==
    [f EXCEPT !.pc = "raised", !.exc = "CalledProcessError",
              !.stderr = g.stderr]

\* ls_tree without lines 56-60: every requested file goes on to git log.
ls_tree_unfiltered(f, g) ==
    IF f.requested_files = {} THEN Raise(f, "AssertionError")
    ELSE IF ~g.found THEN Raise(f, "FileNotFoundError")
    ELSE IF g.ls_status # 0
    THEN CalledProcessError([f EXCEPT !.procs = Append(@, "ls-tree")], g)
    ELSE [f EXCEPT !.procs = Append(@, "ls-tree"), !.pc = "popen"]

\* Lines 45-60: the tracked-files query.
ls_tree(f, g) ==
    IF f.requested_files = {} THEN Raise(f, "AssertionError")
    ELSE IF ~g.found THEN Raise(f, "FileNotFoundError")
    ELSE
    LET f1 == [f EXCEPT !.procs = Append(@, "ls-tree")]
        existing_files ==
            rstrip(rstrip(LsTreeOutput(g, f.requested_files), Whitespace),
                   {NUL})
        requested == f.requested_files \cap Range(split(existing_files, NUL))
    IN  IF g.ls_status # 0 THEN CalledProcessError(f1, g)
        ELSE IF existing_files = <<>> THEN [f1 EXCEPT !.pc = "returned"]
        ELSE IF requested = {} THEN Raise(f1, "AssertionError")
        ELSE [f1 EXCEPT !.pc = "popen", !.requested_files = requested]

\* Lines 62-78: start git log on the tracked requested files.
popen(f, g) ==
    IF ~g.found THEN Raise(f, "FileNotFoundError")
    ELSE [f EXCEPT !.pc = "line0",
                   !.procs = Append(@, "log"),
                   !.log_args = f.requested_files,
                   !.stream = GitLogOutput(g, f.requested_files,
                                           f.show_merge_commits)]

\* Lines 87-93: the first line of the stream is blank.
line0(f) ==
    LET l0 == readline(f.stream, f.pos)
    IN  IF rstrip(l0, Whitespace) # <<>> THEN Raise(f, "AssertionError")
        ELSE [f EXCEPT !.pc = "loop", !.pos = @ + Len(l0)]

\* Lines 137-146: the shallow check at a root commit.
rev_parse(f, g) ==
    IF ~g.found THEN Raise(f, "FileNotFoundError")
    ELSE [f EXCEPT !.procs = Append(@, "rev-parse")]

\* record_files writing the entry of every changed file, pending or not.
record_files_overwriting(f, changed_files, timestamp, too_shallow, author) ==
    [f EXCEPT
        !.requested_files = @ \ Range(changed_files),
        !.file_dates =
            [n \in DOMAIN @ |->
                IF n \in Range(changed_files)
                THEN <<timestamp, too_shallow, author>>
                ELSE @[n]]]

\* Lines 148-156: every changed file still requested is resolved.
record_files(f, changed_files, timestamp, too_shallow, author) ==
    [f EXCEPT
        !.requested_files = @ \ Range(changed_files),
        !.file_dates =
            [n \in DOMAIN @ |->
                IF n \in f.requested_files /\ n \in Range(changed_files)
                THEN <<timestamp, too_shallow, author>>
                ELSE @[n]]]

\* too_shallow without the reset of line 136: once the shallow check of
\* frame f has run, its answer is kept for the commits that follow.
too_shallow_kept(f, g, parent_commits) ==
    /\ parent_commits = <<>> \/ "rev-parse" \in Range(f.procs)
    /\ rstrip(IsShallowOutput(g), Whitespace) = <<116, 114, 117, 101>>

\* Lines 136-146: too_shallow for a commit with the parents given, in an
\* iteration of frame f.
too_shallow(f, g, parent_commits) ==
    /\ parent_commits = <<>>
    /\ rstrip(IsShallowOutput(g), Whitespace) = <<116, 114, 117, 101>>

\* end_of_log without the assertion of line 106.
end_of_log_unasserted(f) ==
    [f EXCEPT !.pc = "terminate", !.warnings = Append(@, "unhandled_files")]

\* Lines 104-112: the stream has ended with files still requested.
end_of_log(f) ==
    IF f.exclude_commits = {} THEN Raise(f, "AssertionError")
    ELSE [f EXCEPT !.pc = "terminate",
                   !.warnings = Append(@, "unhandled_files")]

\* read_ahead without line 125: the line read is forgotten.
read_ahead_dropped(f, line2) == f

\* Lines 123-126: line2 is kept as the header of the next iteration.
read_ahead(f, line2) == [f EXCEPT !.pending_header = <<line2>>]

\* loop_exit reading the stream to its end first.
loop_exit_drained(f) == [f EXCEPT !.pc = "terminate", !.pos = Len(f.stream)]

\* Line 96: requested_files is empty, the loop is left.
loop_exit(f) == [f EXCEPT !.pc = "terminate"]

\* Lines 96-156: one iteration of the loop of parse_log (or its exit).
parse_log_iteration(f, g) ==
    IF f.requested_files = {} THEN loop_exit(f)
    ELSE
    LET line1 == IF f.pending_header # None THEN f.pending_header[1]
                 ELSE readline(f.stream, f.pos)
        pos1 == IF f.pending_header # None THEN f.pos
                ELSE f.pos + Len(line1)
        f1 == [f EXCEPT !.pending_header = None, !.pos = pos1]
        pieces == split(rstrip(line1, Whitespace), NUL)
        timestamp == pieces[1]
        commit == pieces[2]
        parent_commits == pieces[3]
        author == pieces[4]
        raw2 == readline(f.stream, pos1)
        line2 == rstrip(raw2, Whitespace)
        f2 == [f1 EXCEPT !.pos = pos1 + Len(raw2)]
        changed_files == split(rstrip(line2, {NUL}), NUL)
        f3 == rev_parse(f2, g)
    IN  IF line1 = <<>> THEN end_of_log(f1)
        ELSE IF Len(pieces) \notin {4, 5} THEN Raise(f1, "AssertionError")
        ELSE IF ~endswith(line2, NUL) THEN read_ahead(f2, line2)
        ELSE IF rstrip(line2, {NUL}) = <<>> THEN f2
        ELSE IF commit \in f.exclude_commits THEN f2
        ELSE IF parent_commits = <<>> /\ f3.pc = "raised" THEN f3
        ELSE record_files(IF parent_commits = <<>> THEN f3 ELSE f2,
                          changed_files, timestamp,
                          too_shallow(f, g, parent_commits), author)

\* Line 83: the process is terminated and the call returns.
terminate(f) == [f EXCEPT !.pc = "returned"]

\* One step of the call.
step(f, g) ==
    CASE f.pc = "ls_tree" -> ls_tree(f, g)
      [] f.pc = "popen" -> popen(f, g)
      [] f.pc = "line0" -> line0(f)
      [] f.pc = "loop" -> parse_log_iteration(f, g)
      [] f.pc = "terminate" -> terminate(f)
      [] OTHER -> f

\* The call run to its end: update_file_dates(git_dir, ...).
RECURSIVE update_file_dates(_, _)
update_file_dates(f, g) ==
    IF f.pc \in {"returned", "raised"} THEN f
    ELSE update_file_dates(step(f, g), g)

----------------------------------------------------------------------------
(* The repositories and arguments the model draws its inputs from. *)

\* File names "a" and "b"; author names "a" and "u".
FileNames == {<<97>>, <<98>>}
Authors == {<<97>>, <<117>>}

\* %P of a root commit, of a commit with one parent, of a merge commit.
ParentChoices == {<<>>, <<112>>, <<112, SP, 113>>}

\* The decimal digits of n, for 0 <= n <= 99.
Decimal(n) ==
    IF n < 10 THEN <<48 + n>> ELSE <<48 + (n \div 10), 48 + (n % 10)>>

\* The i-th commit of a history carries the hash "h", "i", "j", ... and the
\* author date "10", "9", "8", ... when it touches file "a", one second
\* less when it touches "b" alone.
Timestamp(i, files) ==
    Decimal(IF <<97>> \in files THEN 11 - i ELSE 10 - i)
Hash(i) == <<103 + i>>

\* The commits that may stand at place i of a history touching `files`.
Commits(i, files) ==
    {[timestamp |-> Timestamp(i, S), hash |-> Hash(i), parents |-> p,
      author |-> a, files |-> Sorted(S)] :
        S \in (SUBSET files) \ {{}}, p \in ParentChoices, a \in Authors}

\* The histories of at most n commits touching `files`.
RECURSIVE Histories(_, _)
Histories(files, n) ==
    IF n = 0 THEN {<<>>}
    ELSE LET shorter == Histories(files, n - 1)
         IN  shorter \cup
             {Append(h, c) : h \in {x \in shorter : Len(x) = n - 1},
                             c \in Commits(n, files)}

\* "fatal": what git writes to stderr when it fails.
fatal == <<102, 97, 116, 97, 108>>

HasRoot(h) == \E i \in DOMAIN h : h[i].parents = <<>>
HasMerge(h) == \E i \in DOMAIN h : IsMerge(h[i])

\* What the tracked-files query may meet in a directory holding `files`:
\* git missing, the query failing, or some of the files tracked.
Checkouts(files) ==
    {[found |-> FALSE, ls_status |-> 0, tracked |-> {}, history |-> <<>>,
      log_status |-> 0, shallow |-> FALSE, stderr |-> None],
     [found |-> TRUE, ls_status |-> 128, tracked |-> {}, history |-> <<>>,
      log_status |-> 0, shallow |-> FALSE, stderr |-> fatal]}
    \cup
    [found : {TRUE}, ls_status : {0}, tracked : SUBSET files,
     history : {<<>>}, log_status : {0}, shallow : {FALSE},
     stderr : {None}]

\* What git log and git rev-parse may then show of repository g for the
\* files `logged`, in at most n commits, or git log failing.  A repository
\* is drawn shallow only where some commit shows as a root: elsewhere the
\* shallow check is never run.
Logs(g, logged, n) ==
    {r \in [found : {g.found}, ls_status : {g.ls_status},
            tracked : {g.tracked}, stderr : {g.stderr},
            history : Histories(logged, n), log_status : {0},
            shallow : BOOLEAN] :
        r.shallow => HasRoot(r.history)}
    \cup
    {[g EXCEPT !.log_status = 128, !.stderr = fatal]}

\* git_exclude_commits: nothing, or the newest commit.
ExcludeSets == {{}, {Hash(1)}}

----------------------------------------------------------------------------
(* The Sphinx project: two documents in two directories, and the files a  *)
(* document may depend on.  A path is <<directory, file name>>.            *)

Docs == {"d1", "d2"}

\* env.found_docs
found_docs == Docs

\* env.doc2path(docname), split into parent directory and name
doc2path(docname) ==
    IF docname = "d1" THEN <<"A", <<97>>>> ELSE <<"B", <<98>>>>

\* The dependency lists of d1: none, a file beside it, and a file in the
\* other directory too.  d2 has no dependencies.
DepLists == {<<>>, << <<"A", <<98>>>> >>,
             << <<"A", <<98>>>>, <<"B", <<97>>>> >>}

\* app.config after setup() and config-inited (lines 555-557, 644-674).
\* git_first_parent only adds --first-parent to the arguments of git log,
\* and the histories drawn are what git shows under either setting.
DefaultConfig ==
    [git_untracked_check_dependencies |-> TRUE,
     git_untracked_show_sourcelink |-> FALSE,
     git_show_author |-> FALSE,
     git_show_all_authors |-> FALSE,
     git_show_manual_author |-> FALSE,
     git_author_aliases |-> <<>>,
     git_exclude_patterns |-> {},
     git_exclude_commits |-> {},
     git_show_merge_commits |-> FALSE]

\* The configurations changing at most MaxSettings settings.
Configs ==
    {c \in [git_untracked_check_dependencies : BOOLEAN,
            git_untracked_show_sourcelink : BOOLEAN,
            git_show_author : BOOLEAN,
            git_show_all_authors : BOOLEAN,
            git_show_manual_author : BOOLEAN,
            git_author_aliases : {<<>>},
            git_exclude_patterns :
                {{}, {doc2path("d1")}, {<<"A", <<98>>>>}},
            git_exclude_commits : ExcludeSets,
            git_show_merge_commits : BOOLEAN] :
        Cardinality({k \in DOMAIN c : c[k] # DefaultConfig[k]})
            <= MaxSettings}

\* A matcher that matches no path.
excluded_none(cfg, path) == FALSE

\* Matcher(app.config.git_exclude_patterns): a pattern is a literal path.
excluded(cfg, path) == path \in cfg.git_exclude_patterns

----------------------------------------------------------------------------
(* env.git_last_updated: a dict in insertion order, as a sequence of       *)
(* <<docname, data>>.  data is None, the pair (None, manual_authors) that  *)
(* source-read stores, or the record                                       *)
(* (timestamp, show_sourcelink, author, manual_authors).                   *)

Keys(d) == {d[i][1] : i \in DOMAIN d}

\* d.get(k): None when k is not a key
Get(d, k) ==
    IF k \in Keys(d) THEN d[CHOOSE i \in DOMAIN d : d[i][1] = k][2]
    ELSE None

\* d[k] = v
Put(d, k, v) ==
    IF k \in Keys(d)
    THEN [i \in DOMAIN d |-> IF d[i][1] = k THEN <<k, v>> ELSE d[i]]
    ELSE Append(d, <<k, v>>)

\* del d[k]
Del(d, k) == SelectSeq(d, LAMBDA e : e[1] # k)

----------------------------------------------------------------------------
(* update_file_dates as _env_updated sees it: what a call for the files of *)
(* one directory leaves in file_dates, the exception it raised and its     *)
(* warnings, with the files it passed to git log and the git commands it   *)
(* ran that exited with a non-zero status.                                 *)

Outcome(f, g) ==
    [file_dates |-> f.file_dates, exc |-> f.exc, stderr |-> f.stderr,
     warnings |-> f.warnings, log_args |-> f.log_args,
     failed |-> {p \in Range(f.procs) :
                    \/ p = "ls-tree" /\ g.ls_status # 0
                    \/ p = "log" /\ g.log_status # 0}]

\* Every outcome of update_file_dates(git_dir, exclude_commits,
\* {name: None for name in files}, ...) over the repositories of the model.
Outcomes(exclude_commits, show_merge_commits, files) ==
    {Outcome(update_file_dates(
                 NewFrame(exclude_commits, [n \in files |-> None],
                          show_merge_commits), g), g) :
        g \in UNION {Logs(c, c.tracked, MaxHistory) : c \in Checkouts(files)}}

\* The outcomes of the calls that ask for one file, computed once.
OutcomeTable ==
    [ex \in ExcludeSets, m \in BOOLEAN, name \in FileNames |->
        Outcomes(ex, m, {name})]

OutcomesFor(cfg, files) ==
    IF Cardinality(files) = 1
    THEN OutcomeTable[cfg.git_exclude_commits, cfg.git_show_merge_commits,
                      CHOOSE n \in files : TRUE]
    ELSE Outcomes(cfg.git_exclude_commits, cfg.git_show_merge_commits, files)

----------------------------------------------------------------------------
(* _env_updated.  An activation holds its locals:                          *)
(*   pc        : where the handler is; "returned" and "raised" once over   *)
(*   exit      : how it ended: "normal", "command_not_found" (the return   *)
(*               of line 253) or the exception that left it                *)
(*   src_paths : docname -> (directory, name), in insertion order          *)
(*   src_dates, dep_dates : directory -> file_dates, in insertion order    *)
(*   dep_paths : docname -> list of (directory, name)                      *)
(*   candi_dates : docname -> list of (timestamp, too_shallow, author)     *)
(*   show_sourcelink : docname -> bool                                     *)
(*   i         : the place of the directory the current loop is at         *)
(*   calls     : the calls of update_file_dates made, as                   *)
(*               <<"src" or "dep", directory, exception raised,            *)
(*                 files passed to git log, git commands that failed>>     *)
(*   warnings  : the warnings logged, as [subtype, location, text]         *)

NoActivation ==
    [pc |-> "idle", exit |-> "none", src_paths |-> <<>>, src_dates |-> <<>>,
     dep_paths |-> <<>>, dep_dates |-> <<>>, candi_dates |-> <<>>,
     show_sourcelink |-> <<>>, i |-> 0, calls |-> <<>>, warnings |-> {}]

Warning(subtype, location, text) ==
    [subtype |-> subtype, location |-> location, text |-> text]

\* The warnings parse_log logged during a call for directory git_dir.
LoggedBy(o, git_dir) ==
    {Warning(o.warnings[k], git_dir, None) : k \in DOMAIN o.warnings}

\* dates[git_dir][name] = None, for a defaultdict(dict) in insertion order
AddFile(dates, path) ==
    Put(dates, path[1],
        [n \in DOMAIN Get(dates, path[1]) \cup {path[2]} |->
            IF n = path[2] THEN None ELSE Get(dates, path[1])[n]])

\* Lines 223-230: the documents to update and their files by directory.
RECURSIVE collect_sources(_, _, _)
collect_sources(a, cfg, items) ==
    IF items = <<>> THEN a
    ELSE LET docname == Head(items)[1]
             data == Head(items)[2]
         IN  IF data # None \/ excluded(cfg, doc2path(docname))
             THEN collect_sources(a, cfg, Tail(items))
             ELSE collect_sources(
                      [a EXCEPT
                          !.src_dates = AddFile(@, doc2path(docname)),
                          !.src_paths = Put(@, docname, doc2path(docname))],
                      cfg, Tail(items))

\* Lines 217-234: a new activation, up to the loop over the directories.
env_updated_begin(cfg, store) ==
    [collect_sources(NoActivation, cfg, store) EXCEPT
        !.pc = "src_dirs", !.i = 1]

\* src_dir_warnings without the stderr of lines 245-246.
src_dir_warnings_bare(a, o) ==
    LET git_dir == a.src_dates[a.i][1]
    IN  LoggedBy(o, git_dir) \cup
        CASE o.exc = "CalledProcessError" ->
                {Warning("subprocess_error", git_dir, None)}
          [] o.exc = "FileNotFoundError" ->
                {Warning("command_not_found", "", None)}
          [] OTHER -> {}

\* The warnings of lines 241-252.
src_dir_warnings(a, o) ==
    LET git_dir == a.src_dates[a.i][1]
    IN  LoggedBy(o, git_dir) \cup
        CASE o.exc = "CalledProcessError" ->
                {Warning("subprocess_error", git_dir, o.stderr)}
          [] o.exc = "FileNotFoundError" ->
                {Warning("command_not_found", "", None)}
          [] OTHER -> {}

\* src_dir without the return of line 253.
src_dir_no_return(a, o) ==
    LET git_dir == a.src_dates[a.i][1]
        a1 == [a EXCEPT !.src_dates[a.i] = <<git_dir, o.file_dates>>,
                        !.calls = Append(@, <<"src", git_dir, o.exc,
                                             o.log_args, o.failed>>),
                        !.warnings = @ \cup src_dir_warnings(a, o),
                        !.i = @ + 1]
    IN  IF o.exc \in {"none", "CalledProcessError", "FileNotFoundError"}
        THEN a1
        ELSE [a1 EXCEPT !.pc = "raised", !.exit = o.exc]

\* Lines 235-253: update_file_dates for the i-th source directory, with
\* outcome o.
src_dir(a, o) ==
    LET git_dir == a.src_dates[a.i][1]
        a1 == [a EXCEPT !.src_dates[a.i] = <<git_dir, o.file_dates>>,
                        !.calls = Append(@, <<"src", git_dir, o.exc,
                                             o.log_args, o.failed>>),
                        !.warnings = @ \cup src_dir_warnings(a, o),
                        !.i = @ + 1]
    IN  CASE o.exc \in {"none", "CalledProcessError"} -> a1
          [] o.exc = "FileNotFoundError" ->
                [a1 EXCEPT !.pc = "returned", !.exit = "command_not_found"]
          [] OTHER -> [a1 EXCEPT !.pc = "raised", !.exit = o.exc]

\* source_link without the setting of line 265.
source_link_unset(cfg, date) == date # None

\* Lines 262-266: show_sourcelink[docname] for a primary file with `date`.
source_link(cfg, date) ==
    ~(date = None /\ ~cfg.git_untracked_show_sourcelink)

\* Lines 261-286 for one document: its source link, its first candidate
\* and the dependencies to ask git about; `missing` are the dependency
\* files that do not exist.
scan_doc(a, cfg, deps, missing, item) ==
    LET docname == item[1]
        date == Get(a.src_dates, item[2][1])[item[2][2]]
        a1 == [a EXCEPT !.show_sourcelink =
                            Put(@, docname, source_link(cfg, date))]
        a2 == IF date = None THEN a1
              ELSE [a1 EXCEPT !.candi_dates =
                                  Put(@, docname, <<date>>)]
        found == SelectSeq(deps[docname],
                     LAMBDA dep : ~excluded(cfg, dep) /\ dep \notin missing)
        RECURSIVE add(_, _)
        add(x, ds) ==
            IF ds = <<>> THEN x
            ELSE add([x EXCEPT
                         !.dep_dates = AddFile(@, Head(ds)),
                         !.dep_paths = Put(@, docname,
                                           Append(Get(@, docname), Head(ds)))],
                     Tail(ds))
    IN  IF date = None /\ ~cfg.git_untracked_check_dependencies THEN a1
        ELSE add(a2, found)

\* The dependencies line 276 looks for on disk.
looked_up(a, cfg, deps) ==
    UNION {{deps[a.src_paths[k][1]][j] : j \in
               {j \in DOMAIN deps[a.src_paths[k][1]] :
                   ~excluded(cfg, deps[a.src_paths[k][1]][j])}} :
           k \in {k \in DOMAIN a.src_paths :
                     ~(Get(a.src_dates, a.src_paths[k][2][1])
                           [a.src_paths[k][2][2]] = None
                       /\ ~cfg.git_untracked_check_dependencies)}}

\* The warnings of lines 277-283.
scan_warnings(a, cfg, deps, missing) ==
    {Warning("dependency_not_found", a.src_paths[k][1], None) :
        k \in {k \in DOMAIN a.src_paths :
                  /\ ~(Get(a.src_dates, a.src_paths[k][2][1])
                           [a.src_paths[k][2][2]] = None
                       /\ ~cfg.git_untracked_check_dependencies)
                  /\ \E j \in DOMAIN deps[a.src_paths[k][1]] :
                        /\ ~excluded(cfg, deps[a.src_paths[k][1]][j])
                        /\ deps[a.src_paths[k][1]][j] \in missing}}

\* Lines 255-290: the loop over the documents.
RECURSIVE scan_docs(_, _, _, _, _)
scan_docs(a, cfg, deps, missing, items) ==
    IF items = <<>>
    THEN [a EXCEPT !.pc = "dep_dirs", !.i = 1,
                   !.warnings = @ \cup scan_warnings(a, cfg, deps, missing)]
    ELSE scan_docs(scan_doc(a, cfg, deps, missing, Head(items)),
                   cfg, deps, missing, Tail(items))

\* Lines 291-298: update_file_dates for the i-th dependency directory.
dep_dir(a, o) ==
    LET git_dir == a.dep_dates[a.i][1]
        a1 == [a EXCEPT !.dep_dates[a.i] = <<git_dir, o.file_dates>>,
                        !.calls = Append(@, <<"dep", git_dir, o.exc,
                                             o.log_args, o.failed>>),
                        !.warnings = @ \cup LoggedBy(o, git_dir),
                        !.i = @ + 1]
    IN  IF o.exc \in {"none", "CalledProcessError"} THEN a1
        ELSE [a1 EXCEPT !.pc = "raised", !.exit = o.exc]

\* (t1, s1, a1) < (t2, s2, a2) for tuples of bytes, bool and str
TupleLess(c1, c2) ==
    \/ BytesLess(c1[1], c2[1])
    \/ /\ c1[1] = c2[1]
       /\ \/ ~c1[2] /\ c2[2]
          \/ c1[2] = c2[2] /\ BytesLess(c1[3], c2[3])

\* max(timestamps): the first of the greatest items
max(timestamps) ==
    timestamps[Min({i \in DOMAIN timestamps :
                       \A j \in DOMAIN timestamps :
                           ~TupleLess(timestamps[i], timestamps[j])})]

\* Lines 300-305: the candidates of a document, its dependencies added.
candidates(a, docname) ==
    Get(a.candi_dates, docname) \o
    SelectSeq([k \in DOMAIN Get(a.dep_paths, docname) |->
                  Get(a.dep_dates, Get(a.dep_paths, docname)[k][1])
                      [Get(a.dep_paths, docname)[k][2]]],
              LAMBDA date : date # None)

\* Lines 307-325: the record of a document.
record(a, store, docname) ==
    LET timestamps == candidates(a, docname)
        existing == Get(store, docname)
        manual_authors == IF Len(existing) > 1 THEN existing[2] ELSE None
    IN  <<IF timestamps = <<>> \/ max(timestamps)[2] THEN None
          ELSE max(timestamps)[1],
          Get(a.show_sourcelink, docname),
          IF timestamps = <<>> THEN None ELSE max(timestamps)[3],
          manual_authors>>

RECURSIVE assemble(_, _, _)
assemble(a, store, items) ==
    IF items = <<>> THEN store
    ELSE assemble(a, Put(store, Head(items)[1],
                         record(a, store, Head(items)[1])),
                  Tail(items))

\* The warnings of lines 312-316.
too_shallow_warnings(a) ==
    {Warning("too_shallow", a.src_paths[k][1], None) :
        k \in {k \in DOMAIN a.src_paths :
                  /\ candidates(a, a.src_paths[k][1]) # <<>>
                  /\ max(candidates(a, a.src_paths[k][1]))[2]}}

\* Lines 328-395: with git_show_all_authors, line 371 unpacks the record
\* of four items just stored into three names.
all_authors(a, cfg) ==
    IF cfg.git_show_all_authors /\ a.src_paths # <<>>
    THEN [a EXCEPT !.pc = "raised", !.exit = "ValueError"]
    ELSE [a EXCEPT !.pc = "returned", !.exit = "normal"]

\* Lines 300-395: the end of the handler.
finish(a, cfg) ==
    all_authors([a EXCEPT !.warnings = @ \cup too_shallow_warnings(a)], cfg)

----------------------------------------------------------------------------
(* source-read, env-purge-doc and html-page-context. *)

\* A source text is a sequence of lines; a line is plain text, an RST
\* author directive (.. author:: Name) or a MyST one ({author} Name),
\* with the text after the directive.
Line(kind, text) == [kind |-> kind, text |-> text]

\* str.strip()
strip(b) ==
    LET keep == {i \in DOMAIN b : b[i] \notin Whitespace}
    IN  IF keep = {} THEN <<>>
        ELSE SubSeq(b, Min(keep), CHOOSE i \in keep : \A j \in keep : j <= i)

\* Lines 570-599: the names of the RST directives, then those of the MyST
\* ones, blank names dropped; None when there is none.
_parse_author_directives(source_text) ==
    LET names(kind) ==
            SelectSeq([k \in DOMAIN source_text |->
                          IF source_text[k].kind = kind
                          THEN strip(source_text[k].text) ELSE <<>>],
                      LAMBDA n : n # <<>>)
    IN  names("rst") \o names("myst")

\* Lines 602-620: what source-read stores for docname.
_source_read(cfg, store, docname, source) ==
    IF docname \notin found_docs \/ docname \in Keys(store) THEN store
    ELSE Put(store, docname,
             <<None,
               IF cfg.git_show_manual_author /\ source # <<>>
               THEN _parse_author_directives(source) ELSE None>>)

\* d.update(items)
RECURSIVE update(_, _)
update(d, items) ==
    IF items = <<>> THEN d
    ELSE update(Put(d, Head(items)[1], Head(items)[2]), Tail(items))

\* The shard's store taking the place of the store.
_env_merge_info_replace(store, shard) == shard

\* Lines 623-624
_env_merge_info(store, shard) == update(store, shard)

\* Lines 627-631
_env_purge_doc(store, docname) == Del(store, docname)

\* The pieces of a rendered string: literal text, a name, a formatted date.
Lit(text) == [k |-> text, v |-> <<>>]
Name(b) == [k |-> "name", v |-> b]
Date(timestamp) == [k |-> "date", v |-> <<int(timestamp)>>]

\* Lines 451-465: "A", "A and B", "A, B, and C"
join_names(names) ==
    IF Len(names) = 1 THEN <<Name(names[1])>>
    ELSE IF Len(names) = 2
    THEN <<Name(names[1]), Lit(" and "), Name(names[2])>>
    ELSE Concat([k \in 1..(Len(names) - 1) |->
                    <<Name(names[k]), Lit(", ")>>])
         \o <<Lit("and "), Name(names[Len(names)])>>

\* str.lower() on ASCII letters
lower(b) == [i \in DOMAIN b |-> IF b[i] \in 65..90 THEN b[i] + 32 ELSE b[i]]

\* x or y: None and the empty string are false
Or(x, y) == IF x # <<>> THEN x ELSE y

\* Lines 474-476, 511-513: aliases is app.config.git_author_aliases or {},
\* a dict kept as a sequence of <<key, display name>>.
map_author(aliases, name) ==
    LET base == strip(name)
    IN  Or(Get(aliases, base), Or(Get(aliases, lower(base)), base))

\* last_updated without lines 449-505: the manual authors are ignored.
last_updated_git_only(cfg, timestamp, author, manual_authors) ==
    <<Date(timestamp)>>
    \o (IF author # None /\ (cfg.git_show_author \/ cfg.git_show_all_authors)
        THEN <<Lit(" "), Lit("by "),
               Name(map_author(cfg.git_author_aliases, author))>>
        ELSE <<>>)

\* Lines 438-547 for an author that is None or a str: the last_updated
\* string.
last_updated(cfg, timestamp, author, manual_authors) ==
    LET show == author # None
                /\ (cfg.git_show_author \/ cfg.git_show_all_authors)
    IN  IF manual_authors # None /\ cfg.git_show_manual_author
        THEN <<Lit("Author: ")>> \o join_names(manual_authors)
             \o <<Lit("\n"), Date(timestamp)>>
             \o (IF show
                 THEN <<Lit(", "), Lit("edited by "),
                        Name(map_author(cfg.git_author_aliases, author))>>
                 ELSE <<>>)
        ELSE <<Date(timestamp)>>
             \o (IF show
                 THEN <<Lit(" "), Lit("by "),
                        Name(map_author(cfg.git_author_aliases, author))>>
                 ELSE <<>>)

\* Lines 415-431: (timestamp, show_sourcelink, author, manual_authors) as
\* read from the stored data.
unpack(data) ==
    IF data = None \/ data[1] = None THEN <<None, FALSE, None, None>>
    ELSE IF Len(data) = 4 THEN data
    ELSE <<data[1], data[2], data[3], None>>

\* Lines 405-547: the context after html-page-context for pagename.  The
\* builder passes a context with sourcename and page_source_suffix
\* ("html"), without page_source_suffix ("singlehtml") or without
\* sourcename ("nosource").  sourcename tells whether the key is left.
_html_page_context(cfg, store, pagename, builder) ==
    LET data == Get(store, pagename)
        timestamp == unpack(data)[1]
        show_sourcelink == unpack(data)[2]
    IN  IF builder # "html"
        THEN [pagename |-> pagename, builder |-> builder,
              last_updated |-> None, sourcename |-> builder = "singlehtml"]
        ELSE [pagename |-> pagename, builder |-> builder,
              last_updated |->
                  IF timestamp = None THEN None
                  ELSE last_updated(cfg, timestamp, unpack(data)[3],
                                    unpack(data)[4]),
              sourcename |-> show_sourcelink]

\* The read processes of a parallel build, none of them started.
Chunks == {"c1", "c2"}

NoChunks == [c \in Chunks |-> <<>>]

\* No page rendered since the store last changed.
NoContext ==
    [pagename |-> "", builder |-> "", last_updated |-> None,
     sourcename |-> FALSE]

----------------------------------------------------------------------------
(* update_file_authors_follow_per_file.  For this function git holds, for  *)
(* each file, whether the git executable is found, the exit status of git  *)
(* log --follow and the commits it shows, each as                          *)
(* [author, trailers]; a Co-authored-by trailer is [name, email].  The     *)
(* frame holds the file list, the place in it and file_authors.            *)

LT == 60
GT == 62

\* The value of a Co-authored-by trailer: "name <email>", "name", "<email>".
TrailerValue(t) ==
    IF t.email = <<>> THEN t.name
    ELSE (IF t.name = <<>> THEN <<>> ELSE t.name \o <<SP>>)
         \o <<LT>> \o t.email \o <<GT>>

\* %aN%x00%(trailers:key=Co-authored-by,valueonly,separator=%x00,unfold)%x00
\* and the newline that ends the format of a commit.
AuthorsLine(c) ==
    c.author \o <<NUL>>
    \o Concat([i \in DOMAIN c.trailers |->
                  (IF i > 1 THEN <<NUL>> ELSE <<>>)
                  \o TrailerValue(c.trailers[i])])
    \o <<NUL, LF>>

\* The stdout of git log --follow for a file with the commits h.
AuthorsOutput(h) == Concat([i \in DOMAIN h |-> AuthorsLine(h[i])])

\* re.sub(r"\s*<[^>]+>\s*$", "", co).strip() for a stripped co: the text
\* before the first "<" that is closed by the final ">" with no other ">"
\* and at least one character in between.
name_only(co) ==
    LET opens == {i \in DOMAIN co :
                     /\ co[i] = LT
                     /\ co[Len(co)] = GT
                     /\ Len(co) > i + 1
                     /\ \A j \in (i + 1)..(Len(co) - 1) : co[j] # GT}
    IN  IF opens = {} THEN co
        ELSE strip(SubSeq(co, 1, Min(opens) - 1))

\* Lines 184-198: the names of one line of the output.
line_authors(line) ==
    LET parts == SelectSeq(split(line, NUL), LAMBDA p : p # <<>>)
    IN  IF parts = <<>> THEN {}
        ELSE ({strip(parts[1])}
              \cup {name_only(strip(parts[i])) : i \in 2..Len(parts)})
             \ {<<>>}

\* Lines 180-198: the names of the whole output.
stdout_authors(stdout) ==
    UNION {line_authors(l) : l \in Range(split(stdout, LF))}

\* Lines 167-205: one iteration of the loop over file_list, or its end.
authors_iteration(f, g) ==
    IF f.i > Len(f.file_list) THEN [f EXCEPT !.pc = "returned"]
    ELSE LET filename == f.file_list[f.i]
             authors == stdout_authors(AuthorsOutput(g[filename].commits))
         IN  IF ~g[filename].found \/ g[filename].status # 0 \/ authors = {}
             THEN [f EXCEPT !.i = @ + 1]
             ELSE [f EXCEPT !.i = @ + 1,
                            !.file_authors[filename] = @ \cup authors]

----------------------------------------------------------------------------
(* SpecLog: one call of update_file_dates, step by step.  The history is *)
(* drawn when git log starts; -m is drawn only against histories holding a *)
(* merge commit, as it changes no other output.                            *)

others == <<config, dependencies, git_last_updated, eu, context, other>>

InitLog ==
    \E files \in {{<<97>>}, FileNames} :
    \E g \in Checkouts(files), ex \in ExcludeSets, m \in BOOLEAN :
        /\ git = g
        /\ frame = NewFrame(ex, [n \in files |-> None], m)
        /\ config = DefaultConfig
        /\ dependencies = [d \in Docs |-> <<>>]
        /\ git_last_updated = <<>>
        /\ eu = NoActivation
        /\ context = NoContext
        /\ other = NoChunks

LsTree ==
    /\ frame.pc = "ls_tree"
    /\ frame' = ls_tree(frame, git)
    /\ UNCHANGED <<git, others>>

Popen ==
    /\ frame.pc = "popen"
    /\ \E g \in Logs(git, frame.requested_files, MaxCommits) :
        /\ frame.show_merge_commits => HasMerge(g.history)
        /\ git' = g
        /\ frame' = popen(frame, g)
    /\ UNCHANGED others

Line0 ==
    /\ frame.pc = "line0"
    /\ frame' = line0(frame)
    /\ UNCHANGED <<git, others>>

ParseLogIteration ==
    /\ frame.pc = "loop"
    /\ frame' = parse_log_iteration(frame, git)
    /\ UNCHANGED <<git, others>>

Terminate ==
    /\ frame.pc = "terminate"
    /\ frame' = terminate(frame)
    /\ UNCHANGED <<git, others>>

NextLog == LsTree \/ Popen \/ Line0 \/ ParseLogIteration \/ Terminate

SpecLog == InitLog /\ [][NextLog]_vars

----------------------------------------------------------------------------
(* SpecParse: parse_log on a stream of any shape.  The stream is a blank   *)
(* or non-blank first line and up to two commits, each a header line of    *)
(* three to five fields followed or not by a line of file names.           *)

FirstLines == {<<LF>>, <<SP, LF>>, <<120, LF>>}

\* The header lines of the i-th commit: the four fields of the format, with
\* the NUL that ends a commit without file list, without the author, and
\* with a fifth field.
HeaderLines(i) ==
    LET four(p) == Decimal(10 - i) \o <<NUL>> \o Hash(i) \o <<NUL>> \o p
                   \o <<NUL, 117>>
        three(p) == Decimal(10 - i) \o <<NUL>> \o Hash(i) \o <<NUL>> \o p
    IN  UNION {{four(p), four(p) \o <<NUL>>, three(p),
                four(p) \o <<NUL, 120>>} : p \in {<<>>, <<112>>}}

\* The lines of file names: one name, two names, and no name at all.
FileLines == {<<97, NUL>>, <<98, NUL, 97, NUL>>, <<NUL>>}

\* A commit of the stream: its header line, then a line of file names or
\* none, each ended by a newline.
CommitLines(i) ==
    {h \o <<LF>> \o l : h \in HeaderLines(i),
                        l \in {<<>>} \cup {x \o <<LF>> : x \in FileLines}}

Streams ==
    {l0 \o c1 \o c2 : l0 \in FirstLines, c1 \in CommitLines(1),
                       c2 \in {<<>>} \cup CommitLines(2)}

\* parse_log is entered with the files git ls-tree reported.
InitParse ==
    \E files \in {{<<97>>}, FileNames}, ex \in ExcludeSets,
       stream \in Streams, sh \in BOOLEAN :
        /\ git = [found |-> TRUE, ls_status |-> 0, tracked |-> files,
                  history |-> <<>>, log_status |-> 0, shallow |-> sh,
                  stderr |-> None]
        /\ frame = [NewFrame(ex, [n \in files |-> None], FALSE) EXCEPT
                        !.pc = "line0", !.procs = <<"ls-tree", "log">>,
                        !.log_args = files, !.stream = stream]
        /\ config = DefaultConfig
        /\ dependencies = [d \in Docs |-> <<>>]
        /\ git_last_updated = <<>>
        /\ eu = NoActivation
        /\ context = NoContext
        /\ other = NoChunks

NextParse == Line0 \/ ParseLogIteration \/ Terminate

SpecParse == InitParse /\ [][NextParse]_vars

----------------------------------------------------------------------------
(* SpecAuthors: one call of update_file_authors_follow_per_file for the    *)
(* files a and b.  File a has up to two commits, by an author who may have *)
(* left no name, with up to two Co-authored-by trailers each.              *)

Trailers == [name : {<<>>, <<98>>}, email : {<<>>, <<101>>}]

AuthorCommits ==
    [author : {<<>>, <<97>>, <<117>>},
     trailers : {<<>>} \cup {<<t>> : t \in Trailers}
                \cup {<<[name |-> <<98>>, email |-> <<101>>],
                        [name |-> <<99>>, email |-> <<>>]>>}]

AuthorHistories ==
    {<<>>} \cup {<<c>> : c \in AuthorCommits}
    \cup {<<c1, c2>> : c1 \in AuthorCommits, c2 \in AuthorCommits}

\* How git log --follow may end for a file.
AuthorLogs(histories) ==
    {[found |-> TRUE, status |-> 128, commits |-> <<>>],
     [found |-> FALSE, status |-> 0, commits |-> <<>>]}
    \cup [found : {TRUE}, status : {0}, commits : histories]

InitAuthors ==
    /\ git \in {g \in [FileNames -> AuthorLogs(AuthorHistories)] :
                   g[<<98>>] \in AuthorLogs(
                       {<<[author |-> <<117>>, trailers |-> <<>>]>>})}
    /\ frame = [pc |-> "loop", file_list |-> <<(<<97>>), <<98>>>>, i |-> 1,
                file_authors |-> [n \in FileNames |-> {}]]
    /\ config = DefaultConfig
    /\ dependencies = [d \in Docs |-> <<>>]
    /\ git_last_updated = <<>>
    /\ eu = NoActivation
    /\ context = NoContext
    /\ other = NoChunks

AuthorsIteration ==
    /\ frame.pc = "loop"
    /\ frame' = authors_iteration(frame, git)
    /\ UNCHANGED <<git, others>>

NextAuthors == AuthorsIteration

SpecAuthors == InitAuthors /\ [][NextAuthors]_vars

----------------------------------------------------------------------------
(* Spec: the event handlers on the store of one Sphinx environment.  The  *)
(* store starts empty or as an earlier build pickled it, with documents    *)
(* still unresolved (None).  Sphinx runs one handler at a time; a handler  *)
(* that raised ends the build.                                             *)

\* The source texts source-read may be given.
Sources ==
    {<<>>,
     <<Line("rst", <<SP, 77>>)>>,
     <<Line("myst", <<78>>), Line("text", <<120>>), Line("rst", <<77, SP>>)>>}

PersistedStores ==
    {<<>>, << <<"d1", None>> >>, << <<"d1", None>>, <<"d2", None>> >>}

Init ==
    /\ config \in Configs
    /\ dependencies \in [Docs -> DepLists]
    /\ dependencies["d2"] = <<>>
    /\ git_last_updated \in PersistedStores
    /\ eu = NoActivation
    /\ context = NoContext
    /\ other = NoChunks
    /\ frame = NewFrame({}, <<>>, FALSE)
    /\ git \in {g \in Checkouts({}) : ~g.found}

Idle == eu.pc \in {"idle", "returned"}

SourceRead ==
    /\ Idle
    /\ \E docname \in Docs \cup {"inc"}, source \in Sources :
        git_last_updated' =
            _source_read(config, git_last_updated, docname, source)
    /\ eu' = NoActivation
    /\ context' = NoContext
    /\ UNCHANGED <<frame, git, other, config, dependencies>>

EnvPurgeDoc ==
    /\ Idle
    /\ \E docname \in Docs :
        git_last_updated' = _env_purge_doc(git_last_updated, docname)
    /\ eu' = NoActivation
    /\ context' = NoContext
    /\ UNCHANGED <<frame, git, other, config, dependencies>>

EnvUpdatedBegin ==
    /\ Idle
    /\ eu' = env_updated_begin(config, git_last_updated)
    /\ context' = NoContext
    /\ UNCHANGED <<frame, git, other, config, dependencies, git_last_updated>>

EnvUpdatedSrcDir ==
    /\ eu.pc = "src_dirs"
    /\ eu.i <= Len(eu.src_dates)
    /\ \E o \in OutcomesFor(config, DOMAIN eu.src_dates[eu.i][2]) :
        eu' = src_dir(eu, o)
    /\ UNCHANGED <<frame, git, other, config, dependencies, git_last_updated,
                   context>>

EnvUpdatedScanDeps ==
    /\ eu.pc = "src_dirs"
    /\ eu.i > Len(eu.src_dates)
    /\ \E missing \in SUBSET looked_up(eu, config, dependencies) :
        eu' = scan_docs(eu, config, dependencies, missing, eu.src_paths)
    /\ UNCHANGED <<frame, git, other, config, dependencies, git_last_updated,
                   context>>

EnvUpdatedDepDir ==
    /\ eu.pc = "dep_dirs"
    /\ eu.i <= Len(eu.dep_dates)
    /\ \E o \in OutcomesFor(config, DOMAIN eu.dep_dates[eu.i][2]) :
        eu' = dep_dir(eu, o)
    /\ UNCHANGED <<frame, git, other, config, dependencies, git_last_updated,
                   context>>

EnvUpdatedFinish ==
    /\ eu.pc = "dep_dirs"
    /\ eu.i > Len(eu.dep_dates)
    /\ git_last_updated' = assemble(eu, git_last_updated, eu.src_paths)
    /\ eu' = finish(eu, config)
    /\ UNCHANGED <<frame, git, other, config, dependencies, context>>

HtmlPageContext ==
    /\ Idle
    /\ \E pagename \in Keys(git_last_updated),
          builder \in {"html", "singlehtml", "nosource"} :
        context' =
            _html_page_context(config, git_last_updated, pagename, builder)
    /\ eu' = NoActivation
    /\ UNCHANGED <<frame, git, other, config, dependencies, git_last_updated>>

Next ==
    \/ SourceRead
    \/ EnvPurgeDoc
    \/ EnvUpdatedBegin
    \/ EnvUpdatedSrcDir
    \/ EnvUpdatedScanDeps
    \/ EnvUpdatedDepDir
    \/ EnvUpdatedFinish
    \/ HtmlPageContext

Spec == Init /\ [][Next]_vars

----------------------------------------------------------------------------
(* SpecPage: html-page-context on the record of one document, under the    *)
(* settings that are read when a page is rendered (rebuild='html').        *)

\* git_author_aliases: none, a capitalised key, a lower-case key, both.
AliasMappings ==
    {<<>>,
     << <<(<<65>>), <<65, 46>>>> >>,
     << <<(<<97>>), <<65, 46>>>> >>,
     << <<(<<65>>), <<65, 46>>>>, <<(<<97>>), <<97, 46>>>> >>}

PageConfigs ==
    {[DefaultConfig EXCEPT !.git_show_author = a,
                           !.git_show_all_authors = all,
                           !.git_show_manual_author = m,
                           !.git_author_aliases = al] :
        a \in BOOLEAN, all \in BOOLEAN, m \in BOOLEAN, al \in AliasMappings}

\* The records of d1 that lines 415-431 unpack: (timestamp,
\* show_sourcelink, author, manual_authors), with the authors git may
\* report and the manual authors source-read may have found.
PageStores ==
    {<< <<"d1", <<t, s, a, m>> >> >> :
        t \in {None, Decimal(9)}, s \in BOOLEAN,
        a \in {None, <<65>>, <<97>>, <<117>>},
        m \in {None, <<(<<77>>)>>, <<(<<77>>), <<78>>>>,
               <<(<<77>>), <<78>>, <<79>>>>}}

InitPage ==
    /\ config \in PageConfigs
    /\ git_last_updated \in PageStores
    /\ dependencies = [d \in Docs |-> <<>>]
    /\ eu = NoActivation
    /\ context = NoContext
    /\ other = NoChunks
    /\ frame = NewFrame({}, <<>>, FALSE)
    /\ git \in {g \in Checkouts({}) : ~g.found}

NextPage == HtmlPageContext

SpecPage == InitPage /\ [][NextPage]_vars

----------------------------------------------------------------------------
(* SpecMerge: a parallel read.  Sphinx forks a process for a chunk of      *)
(* documents, which works on its own copy of the environment; the main     *)
(* process merges the environment the chunk sends back.                    *)

InitMerge ==
    /\ config \in {DefaultConfig,
                   [DefaultConfig EXCEPT !.git_show_manual_author = TRUE]}
    /\ git_last_updated \in PersistedStores
    /\ other = [c \in Chunks |-> git_last_updated]
    /\ dependencies = [d \in Docs |-> <<>>]
    /\ eu = NoActivation
    /\ context = NoContext
    /\ frame = NewFrame({}, <<>>, FALSE)
    /\ git \in {g \in Checkouts({}) : ~g.found}

\* The fork: a read process starts from the environment as it is.
Fork ==
    /\ \E c \in Chunks : other' = [other EXCEPT ![c] = git_last_updated]
    /\ UNCHANGED <<frame, git, config, dependencies, git_last_updated, eu,
                   context>>

\* source-read for a document, in a read process.
ChunkSourceRead ==
    /\ \E c \in Chunks, docname \in Docs \cup {"inc"}, source \in Sources :
        other' = [other EXCEPT
                     ![c] = _source_read(config, @, docname, source)]
    /\ UNCHANGED <<frame, git, config, dependencies, git_last_updated, eu,
                   context>>

\* env-merge-info in the main process, for a read process that is done.
EnvMergeInfo ==
    /\ \E c \in Chunks :
        git_last_updated' = _env_merge_info(git_last_updated, other[c])
    /\ UNCHANGED <<frame, git, config, dependencies, eu, context, other>>

NextMerge == EnvPurgeDoc \/ Fork \/ ChunkSourceRead \/ EnvMergeInfo

SpecMerge == InitMerge /\ [][NextMerge]_vars

----------------------------------------------------------------------------
(* Properties of one call of update_file_dates, checked under SpecLog. *)

\* The place in history h of the first commit outside `exclude` whose file
\* list in the stream names file n; 0 when there is none.
FirstCommit(h, exclude, show_merge_commits, n) ==
    LET hits == {i \in DOMAIN h :
                    /\ h[i].hash \notin exclude
                    /\ HasFileList(h[i], show_merge_commits)
                    /\ n \in Range(h[i].files)}
    IN  IF hits = {} THEN 0 ELSE Min(hits)

\* C2: after a call has returned, every resolved file holds the timestamp,
\* the too-shallow flag and the author of the first commit in stream order
\* that is not excluded and whose changed-file list names the file.
C2_FirstCommit ==
    (frame.pc = "returned" /\ frame.exc = "none") =>
        \A n \in DOMAIN frame.file_dates :
            frame.file_dates[n] # None =>
                LET i == FirstCommit(git.history, frame.exclude_commits,
                                     frame.show_merge_commits, n)
                IN  /\ i # 0
                    /\ frame.file_dates[n] =
                           <<git.history[i].timestamp,
                             git.history[i].parents = <<>> /\ git.shallow,
                             git.history[i].author>>

\* C7: when git ls-tree reports no requested file as tracked, neither git
\* log nor the shallow check is ever started and the call returns with
\* every file unresolved; when git log is started it is given the tracked
\* requested files only, and an untracked file is never resolved.
C7_TrackedOnly ==
    (frame.pc # "ls_tree" /\ git.found /\ git.ls_status = 0) =>
        /\ git.tracked = {} =>
               /\ frame.pc = "returned" /\ frame.exc = "none"
               /\ frame.procs = <<"ls-tree">>
               /\ \A n \in DOMAIN frame.file_dates :
                      frame.file_dates[n] = None
        /\ "log" \in Range(frame.procs) =>
               frame.log_args = git.tracked \cap DOMAIN frame.file_dates
        /\ \A n \in DOMAIN frame.file_dates \ git.tracked :
               frame.file_dates[n] = None

\* A call that found none of its two files tracked has returned.
C7_Witness ==
    /\ frame.pc = "returned"
    /\ git.found /\ git.ls_status = 0 /\ git.tracked = {}
    /\ DOMAIN frame.file_dates = FileNames
    /\ frame.procs = <<"ls-tree">>

\* The line the next iteration of parse_log takes as line1.
Line1(f) ==
    IF f.pending_header # None THEN f.pending_header[1]
    ELSE readline(f.stream, f.pos)

\* The bytes read when an iteration has its header line.
Pos1(f) ==
    IF f.pending_header # None THEN f.pos
    ELSE f.pos + Len(readline(f.stream, f.pos))

\* The line an iteration reads after its header line.
Line2(f) == rstrip(readline(f.stream, Pos1(f)), Whitespace)

\* C8: an iteration that meets the end of the stream with files pending
\* logs unhandled_files and leaves the loop without an error, every result
\* as it was, when there are excluded commits; it raises otherwise.
C8_EndOfLog ==
    [][(/\ frame.pc = "loop"
        /\ frame.requested_files # {}
        /\ Line1(frame) = <<>>) =>
           IF frame.exclude_commits # {}
           THEN /\ frame'.pc = "terminate"
                /\ frame'.exc = "none"
                /\ frame'.warnings = Append(frame.warnings, "unhandled_files")
                /\ frame'.file_dates = frame.file_dates
                /\ frame'.requested_files = frame.requested_files
           ELSE /\ frame'.pc = "raised"
                /\ frame'.exc = "AssertionError"]_vars

\* A call has returned after the warning with one file resolved and one
\* still pending.
C8_Witness ==
    /\ frame.pc = "returned" /\ frame.exc = "none"
    /\ frame.warnings = <<"unhandled_files">>
    /\ frame.requested_files # {}
    /\ \E n \in DOMAIN frame.file_dates : frame.file_dates[n] # None
    /\ \E n \in frame.requested_files : frame.file_dates[n] = None

\* C11: a call whose git log exited non-zero of its own ends by raising
\* CalledProcessError with git's diagnostic text, as a failed git ls-tree
\* does; a call that terminated its git log early ends without error.
C11_LogFailure ==
    (frame.pc \in {"returned", "raised"} /\ "log" \in Range(frame.procs)) =>
        IF git.log_status # 0
        THEN frame.exc = "CalledProcessError" /\ frame.stderr = git.stderr
        ELSE frame.pc = "returned" /\ frame.requested_files = {} =>
                 frame.exc = "none"

\* C17: once no file is pending, the call reads nothing more of the stream
\* and goes on to return without an exception.
C17_NoFurtherRead ==
    [][(frame.requested_files = {} /\ "log" \in Range(frame.procs)) =>
           /\ frame'.pos = frame.pos
           /\ frame'.pc \in {"terminate", "returned"}
           /\ frame'.exc = "none"]_vars

\* Two files resolved by two commits, the call returned with a third commit
\* unread.
C17_Witness ==
    /\ frame.pc = "returned"
    /\ frame.log_args = FileNames
    /\ frame.requested_files = {}
    /\ Len(git.history) = 3
    /\ frame.file_dates[<<97>>][1] # frame.file_dates[<<98>>][1]
    /\ frame.pos < Len(frame.stream)

\* The shallow checks the call has run.
ShallowChecks == {i \in DOMAIN frame.procs : frame.procs[i] = "rev-parse"}

\* C18: a call runs git rev-parse at most once, and only when the history
\* shown has a root commit; it starts at most three git subprocesses.
C18_OneShallowCheck ==
    /\ Cardinality(ShallowChecks) <= 1
    /\ ShallowChecks # {} => HasRoot(git.history)
    /\ Len(frame.procs) <= 3

\* The line is the header of a commit of the history, with or without the
\* NUL that ends a commit printed without file list.
IsHeader(line) ==
    \E i \in DOMAIN git.history :
        rstrip(line, Whitespace \cup {NUL}) = Header(git.history[i])

\* C26: an iteration that reads the header line of a commit after its own
\* header resolves nothing from it and keeps it as the header of the next
\* iteration.
C26_HeaderNotFileList ==
    [][(/\ frame.pc = "loop"
        /\ frame.requested_files # {}
        /\ IsHeader(Line1(frame))
        /\ IsHeader(Line2(frame))) =>
           /\ frame'.file_dates = frame.file_dates
           /\ frame'.requested_files = frame.requested_files
           /\ frame'.pending_header # None
           /\ IsHeader(Line1(frame'))
           /\ rstrip(Line1(frame'), {NUL}) = rstrip(Line2(frame), {NUL})]_vars

\* Every file given to git log is either pending with no result or not
\* pending with a result.
PendingOrResolved(f) ==
    \A n \in f.log_args :
        (n \in f.requested_files) = (f.file_dates[n] = None)

\* C27: while parse_log runs, every tracked requested file is either
\* pending with its result unset or not pending with its result set; a step
\* adds no file to the pending set and changes no result that is set.
C27_PendingOrResolved ==
    [][("log" \in Range(frame.procs)) =>
           /\ PendingOrResolved(frame)
           /\ PendingOrResolved(frame')
           /\ frame'.requested_files \subseteq frame.requested_files
           /\ \A n \in DOMAIN frame.file_dates :
                  frame.file_dates[n] # None =>
                      frame'.file_dates[n] = frame.file_dates[n]]_vars

\* A call has returned with file a resolved by the first commit and file b
\* by the second, which touches file a too.
C27_Witness ==
    /\ frame.pc = "returned"
    /\ DOMAIN frame.file_dates = FileNames
    /\ Len(git.history) >= 2
    /\ git.history[1].files = <<(<<97>>)>>
    /\ git.history[2].files = <<(<<97>>), (<<98>>)>>
    /\ frame.file_dates[<<97>>][1] = git.history[1].timestamp
    /\ frame.file_dates[<<98>>][1] = git.history[2].timestamp

\* C28: a file resolved by an iteration is flagged too shallow only if the
\* header of the iteration names no parent and the shallow check, run in
\* that iteration, answered true; a file resolved under a header that names
\* a parent is never flagged.
C28_TooShallow ==
    [][(frame.pc = "loop" /\ frame.requested_files # {}) =>
           \A n \in DOMAIN frame.file_dates :
               (frame.file_dates[n] = None /\ frame'.file_dates[n] # None) =>
                   LET parent_commits ==
                           split(rstrip(Line1(frame), Whitespace), NUL)[3]
                   IN  /\ frame'.file_dates[n][2] =>
                              /\ parent_commits = <<>>
                              /\ git.shallow
                              /\ frame'.procs =
                                     Append(frame.procs, "rev-parse")
                       /\ parent_commits # <<>> =>
                              ~frame'.file_dates[n][2]]_vars

\* In a shallow repository, a call has returned with file a resolved by a
\* root commit and flagged, and file b resolved by a later commit that has
\* a parent and not flagged.
C28_Witness ==
    /\ frame.pc = "returned"
    /\ DOMAIN frame.file_dates = FileNames
    /\ git.shallow
    /\ Len(git.history) >= 2
    /\ git.history[1].parents = <<>>
    /\ git.history[2].parents # <<>>
    /\ frame.file_dates[<<97>>] =
           <<git.history[1].timestamp, TRUE, git.history[1].author>>
    /\ frame.file_dates[<<98>>] =
           <<git.history[2].timestamp, FALSE, git.history[2].author>>

----------------------------------------------------------------------------
(* Properties of parse_log on any stream, checked under SpecParse. *)

\* The fields of a header line: its NUL-separated pieces, the empty piece
\* after a closing NUL not counted.
Fields(line) ==
    LET pieces == split(rstrip(line, Whitespace), NUL)
    IN  IF pieces[Len(pieces)] = <<>> THEN SubSeq(pieces, 1, Len(pieces) - 1)
        ELSE pieces

\* C19: a first line that is not blank, and a header line that has not
\* exactly four fields, make the call raise AssertionError with no result
\* recorded.
C19_FormatViolation ==
    [][/\ (/\ frame.pc = "line0"
           /\ rstrip(readline(frame.stream, frame.pos), Whitespace) # <<>>) =>
              /\ frame'.pc = "raised"
              /\ frame'.exc = "AssertionError"
              /\ frame'.file_dates = frame.file_dates
       /\ (/\ frame.pc = "loop"
           /\ frame.requested_files # {}
           /\ Line1(frame) # <<>>
           /\ Len(Fields(Line1(frame))) # 4) =>
              /\ frame'.pc = "raised"
              /\ frame'.exc = "AssertionError"
              /\ frame'.file_dates = frame.file_dates]_vars

\* C20: an iteration whose header is followed by a line not ending with NUL
\* resolves nothing, raises nothing and leaves that line as the header of
\* the next iteration; one whose header is followed by an empty list of
\* files resolves nothing, raises nothing and goes on with the next line.
C20_NoFileList ==
    [][(/\ frame.pc = "loop"
        /\ frame.requested_files # {}
        /\ Line1(frame) # <<>>
        /\ Len(split(rstrip(Line1(frame), Whitespace), NUL)) \in {4, 5}
        /\ \/ ~endswith(Line2(frame), NUL)
           \/ rstrip(Line2(frame), {NUL}) = <<>>) =>
           /\ frame'.pc = "loop"
           /\ frame'.exc = "none"
           /\ frame'.file_dates = frame.file_dates
           /\ frame'.requested_files = frame.requested_files
           /\ frame'.procs = frame.procs
           /\ frame'.pos =
                  Pos1(frame) + Len(readline(frame.stream, Pos1(frame)))
           /\ IF ~endswith(Line2(frame), NUL)
              THEN /\ frame'.pending_header # None
                   /\ Line1(frame') = Line2(frame)
              ELSE frame'.pending_header = None]_vars

\* A file resolved by the second commit of a stream whose first commit has
\* no line of file names.
C20_Witness ==
    /\ frame.stream = <<LF, 57, NUL, 104, NUL, 112, NUL, 117, LF,
                        56, NUL, 105, NUL, 112, NUL, 117, LF, 97, NUL, LF>>
    /\ frame.pc = "returned"
    /\ frame.file_dates[<<97>>] = <<Decimal(8), FALSE, <<117>>>>

----------------------------------------------------------------------------
(* Properties of update_file_authors_follow_per_file, checked under        *)
(* SpecAuthors.                                                            *)

\* The names the commits h give: the authors and the names of the
\* Co-authored-by trailers, the empty ones left out.
NamesIn(h) ==
    UNION {{strip(h[i].author)}
           \cup {strip(h[i].trailers[j].name) : j \in DOMAIN h[i].trailers} :
           i \in DOMAIN h} \ {<<>>}

\* C24: when the call has returned, the set of a file whose git log
\* succeeded holds the author names and the Co-authored-by names of its
\* commits, without e-mail and without empty names; a file whose git log
\* failed has none, whatever became of the files before it.
C24_AuthorsOfFile ==
    frame.pc = "returned" =>
        \A n \in FileNames :
            frame.file_authors[n] =
                IF git[n].found /\ git[n].status = 0
                THEN NamesIn(git[n].commits) ELSE {}

----------------------------------------------------------------------------
(* Properties of the event handlers, checked under Spec. *)

\* An env-updated pass has run to its end.
Returned == eu.pc = "returned" /\ eu.exit = "normal"

\* The documents the latest pass updated.
Updated == {eu.src_paths[k][1] : k \in DOMAIN eu.src_paths}

\* The date the latest pass got for the primary file of docname.
PrimaryDate(docname) ==
    Get(eu.src_dates, doc2path(docname)[1])[doc2path(docname)[2]]

\* The call the latest pass made for the source directory git_dir.
SrcCall(git_dir) ==
    eu.calls[CHOOSE i \in DOMAIN eu.calls :
                 eu.calls[i][1] = "src" /\ eu.calls[i][2] = git_dir]

\* git ls-tree did not report the primary file of docname as tracked.
Untracked(docname) ==
    /\ SrcCall(doc2path(docname)[1])[3] = "none"
    /\ doc2path(docname)[2] \notin SrcCall(doc2path(docname)[1])[4]

\* The places of the candidates whose timestamp is the greatest as a number.
Latest(timestamps) ==
    {i \in DOMAIN timestamps :
        \A j \in DOMAIN timestamps :
            int(timestamps[j][1]) <= int(timestamps[i][1])}

\* C1: once an env-updated pass has returned, every document of the store
\* whose path matches no exclude pattern holds a resolved record
\* (timestamp, showSourceLink, author, manualAuthors).
C1_Resolved ==
    Returned =>
        \A d \in Keys(git_last_updated) :
            ~excluded(config, doc2path(d)) =>
                Len(Get(git_last_updated, d)) = 4

\* C3: a document whose latest candidates are all too shallow gets no
\* timestamp and a too_shallow warning; one whose latest candidates are
\* not too shallow gets a timestamp, whatever the other candidates.
C3_ShallowInvalidation ==
    Returned =>
        \A d \in Updated :
            LET timestamps == candidates(eu, d)
                top == Latest(timestamps)
            IN  timestamps # <<>> =>
                    /\ (\A i \in top : timestamps[i][2]) =>
                           /\ Get(git_last_updated, d)[1] = None
                           /\ Warning("too_shallow", d, None) \in eu.warnings
                    /\ (\A i \in top : ~timestamps[i][2]) =>
                           Get(git_last_updated, d)[1] # None

\* C4: the page of a document with a resolved record keeps its source link
\* exactly when the record's showSourceLink is true.
C4_SourceLink ==
    (context.builder = "html"
     /\ Len(Get(git_last_updated, context.pagename)) = 4) =>
        context.sourcename = Get(git_last_updated, context.pagename)[2]

\* C5 (amended): the showSourceLink of a document the pass updated is false
\* exactly when the pass got no date for its primary file and
\* git_untracked_show_sourcelink is disabled.
C5_ShowSourceLink ==
    Returned =>
        \A d \in Updated :
            Get(git_last_updated, d)[2] =
                ~(PrimaryDate(d) = None
                  /\ ~config.git_untracked_show_sourcelink)

\* A pass has updated one document with a dated primary file and one
\* without, with the setting disabled.
C5_Witness ==
    /\ Returned
    /\ ~config.git_untracked_show_sourcelink
    /\ Updated = Docs
    /\ PrimaryDate("d1") = None /\ ~Get(git_last_updated, "d1")[2]
    /\ PrimaryDate("d2") # None /\ Get(git_last_updated, "d2")[2]

\* C5 as stated: showSourceLink is false exactly when the primary file is
\* untracked and the setting is disabled, and true for every tracked
\* primary file.
C5_Tracked ==
    Returned =>
        \A d \in Updated :
            Get(git_last_updated, d)[2] =
                ~(doc2path(d)[2] \notin SrcCall(doc2path(d)[1])[4]
                  /\ ~config.git_untracked_show_sourcelink)

\* C6: a document whose primary file is untracked has, with
\* git_untracked_check_dependencies disabled, no dependency queried and no
\* timestamp; with it enabled, the timestamp of its latest dependency
\* candidate (none when that candidate is too shallow).
C6_UntrackedDependencies ==
    Returned =>
        \A d \in Updated :
            Untracked(d) =>
                LET timestamps == candidates(eu, d)
                    timestamp == Get(git_last_updated, d)[1]
                IN  IF ~config.git_untracked_check_dependencies
                    THEN /\ Get(eu.dep_paths, d) = <<>>
                         /\ timestamp = None
                    ELSE timestamps # <<>> =>
                             \E i \in Latest(timestamps) :
                                 timestamp = IF timestamps[i][2] THEN None
                                             ELSE timestamps[i][1]

\* C9: once git was not found for a source directory, the pass has
\* returned with the command_not_found warning, that call was its last,
\* no dependency directory was queried, and every document it was to
\* update is still unresolved and renders no date and no source link.
C9_CommandNotFound ==
    \A i \in DOMAIN eu.calls :
        (eu.calls[i][1] = "src" /\ eu.calls[i][3] = "FileNotFoundError") =>
            /\ eu.pc = "returned" /\ eu.exit = "command_not_found"
            /\ Warning("command_not_found", "", None) \in eu.warnings
            /\ i = Len(eu.calls)
            /\ \A j \in DOMAIN eu.calls : eu.calls[j][1] = "src"
            /\ \A d \in Updated :
                   /\ Get(git_last_updated, d) = None
                   /\ _html_page_context(config, git_last_updated, d,
                                         "html").last_updated = None
                   /\ ~_html_page_context(config, git_last_updated, d,
                                          "html").sourcename

\* git was found for the first source directory, which got a date, and
\* not for the second.
C9_Witness ==
    /\ eu.pc = "returned"
    /\ Len(eu.calls) = 2
    /\ eu.calls[1][3] = "none"
    /\ eu.calls[2][3] = "FileNotFoundError"
    /\ \E n \in DOMAIN eu.src_dates[1][2] : eu.src_dates[1][2][n] # None

\* C10: a source directory whose git ls-tree failed is named by a
\* subprocess_error warning carrying git's stderr, its files are
\* unresolved, the pass goes on to the other directories, and a document
\* of another directory gets the record of its own date.
C10_SubprocessError ==
    \A i \in DOMAIN eu.calls :
        (eu.calls[i][1] = "src"
         /\ eu.calls[i][3] = "CalledProcessError") =>
            /\ Warning("subprocess_error", eu.calls[i][2], fatal)
                   \in eu.warnings
            /\ \A n \in DOMAIN Get(eu.src_dates, eu.calls[i][2]) :
                   Get(eu.src_dates, eu.calls[i][2])[n] = None
            /\ (i = Len(eu.calls) /\ eu.pc \in {"returned", "raised"}) =>
                   eu.exit \in {"normal", "ValueError"}
            /\ (i = Len(eu.calls) /\ eu.pc = "src_dirs") => eu.i = i + 1
            /\ Returned =>
                   \A d \in Updated :
                       (PrimaryDate(d) # None
                        /\ Get(eu.dep_paths, d) = <<>>) =>
                           Get(git_last_updated, d) =
                               <<IF PrimaryDate(d)[2] THEN None
                                 ELSE PrimaryDate(d)[1],
                                 TRUE, PrimaryDate(d)[3], None>>

\* The first source directory failed and the document of the second got
\* its timestamp.
C10_Witness ==
    /\ Returned
    /\ Len(eu.calls) >= 2
    /\ eu.calls[1][3] = "CalledProcessError"
    /\ eu.calls[2][1] = "src" /\ eu.calls[2][3] = "none"
    /\ Get(git_last_updated, eu.src_paths[2][1])[1] # None

\* C13: with git_show_all_authors enabled, env-updated completes when no
\* call of update_file_dates failed, every document it assembled keeping
\* the timestamp, showSourceLink and manual authors of the single-author
\* pass beside its set of authors.
C13_AllAuthors ==
    (/\ eu.pc \in {"returned", "raised"}
     /\ config.git_show_all_authors
     /\ \A k \in DOMAIN eu.calls : eu.calls[k][3] = "none") =>
        /\ eu.pc = "returned"
        /\ eu.exit = "normal" =>
               \A k \in DOMAIN eu.src_paths :
                   LET docname == eu.src_paths[k][1]
                       data == Get(git_last_updated, docname)
                   IN  /\ Len(data) = 4
                       /\ data[2] = Get(eu.show_sourcelink, docname)

\* The files of a dict of file_dates by directory, as <<path, date>>.
Entries(d) ==
    UNION {{<<(<<d[k][1], n>>), d[k][2][n]>> : n \in DOMAIN d[k][2]} :
           k \in DOMAIN d}

\* The files the activation asked git about, as paths.
Queried == {e[1] : e \in Entries(eu.src_dates) \cup Entries(eu.dep_dates)}

\* The pass assembled its records (lines 307-325).
Assembled == eu.exit \in {"normal", "ValueError"}

\* The timestamps git gave for the files of `paths`.
Timestamps(paths) ==
    {e[2][1] : e \in {e \in Entries(eu.src_dates) \cup Entries(eu.dep_dates) :
                          e[1] \in paths /\ e[2] # None}}

\* C15: no file matching git_exclude_patterns is asked about; a document
\* matching them is never collected and keeps no timestamp and no source
\* link; the timestamp of an assembled document is that of its primary file
\* or of a dependency that matches no pattern, and None if there is none.
C15_ExcludePatterns ==
    /\ Queried \cap config.git_exclude_patterns = {}
    /\ \A docname \in Docs :
           doc2path(docname) \in config.git_exclude_patterns =>
               /\ docname \notin Keys(eu.src_paths)
               /\ unpack(Get(git_last_updated, docname))[1] = None
               /\ ~unpack(Get(git_last_updated, docname))[2]
               /\ (context.pagename = docname /\ context.builder = "html")
                      => context.last_updated = None /\ ~context.sourcename
    /\ Assembled =>
           \A k \in DOMAIN eu.src_paths :
               LET docname == eu.src_paths[k][1]
                   deps == dependencies[docname]
                   kept == {eu.src_paths[k][2]} \cup
                           {deps[j] : j \in
                               {j \in DOMAIN deps : deps[j] \notin
                                    config.git_exclude_patterns}}
               IN  Get(git_last_updated, docname)[1]
                       \in Timestamps(kept) \cup {None}

\* A document with an excluded dependency got its timestamp from another
\* dependency.
C15_Witness ==
    /\ Returned
    /\ "d1" \in Keys(eu.src_paths)
    /\ config.git_exclude_patterns = {<<"A", <<98>>>>}
    /\ Len(dependencies["d1"]) = 2
    /\ PrimaryDate("d1") = None
    /\ Get(git_last_updated, "d1")[1] # None

\* C21: the candidate that assembly selects for a document is one whose
\* timestamp, read as an integer, is not less than that of any candidate.
C21_LatestCandidate ==
    Assembled =>
        \A k \in DOMAIN eu.src_paths :
            LET timestamps == candidates(eu, eu.src_paths[k][1])
            IN  timestamps # <<>> =>
                    \A j \in DOMAIN timestamps :
                        int(timestamps[j][1]) <= int(max(timestamps)[1])

\* C22: when several candidates of a document have the latest timestamp,
\* and it is the one selected, the record takes its author and its too
\* shallow flag from the last of them in the list.
C22_LastOfTies ==
    Assembled =>
        \A k \in DOMAIN eu.src_paths :
            LET docname == eu.src_paths[k][1]
                timestamps == candidates(eu, docname)
                ties == Latest(timestamps)
                last == timestamps[CHOOSE i \in ties : \A j \in ties : j <= i]
                data == Get(git_last_updated, docname)
            IN  (/\ Cardinality(ties) >= 2
                 /\ \E i \in ties : timestamps[i][1] = max(timestamps)[1]) =>
                    /\ data[3] = last[3]
                    /\ (data[1] = None) = last[2]

\* The manual authors an entry of the store carries: the second item of
\* what source-read stores, the fourth of a record.
ManualOf(data) ==
    IF Len(data) = 2 THEN data[2] ELSE IF Len(data) = 4 THEN data[4] ELSE None

\* C23: the assembly of a pass leaves every document that has manual
\* authors with a record whose manualAuthors field holds them unchanged.
C23_ManualAuthorsKept ==
    [][(eu.pc = "dep_dirs" /\ eu'.pc \in {"returned", "raised"}) =>
           \A d \in Keys(git_last_updated) :
               (/\ ManualOf(Get(git_last_updated, d)) # None
                /\ doc2path(d) \notin config.git_exclude_patterns) =>
                   /\ Len(Get(git_last_updated', d)) = 4
                   /\ Get(git_last_updated', d)[4] =
                          ManualOf(Get(git_last_updated, d))]_vars

\* The calls of the latest pass for a dependency directory in which one of
\* the git commands named in `commands` exited with a non-zero status.
FailedDeps(commands) ==
    {k \in DOMAIN eu.calls :
        eu.calls[k][1] = "dep" /\ eu.calls[k][5] \cap commands # {}}

\* The pass has gone through the dependencies of its documents.
Scanned ==
    \/ eu.pc = "dep_dirs"
    \/ Assembled
    \/ eu.pc = "raised" /\ eu.calls # <<>>
       /\ eu.calls[Len(eu.calls)][1] = "dep"

\* The dependencies of docname that line 276 did not find on disk.
Missing(docname) ==
    {dep \in Range(dependencies[docname]) :
        /\ dep \in looked_up(eu, config, dependencies)
        /\ dep \notin Range(Get(eu.dep_paths, docname))}

\* The candidates of docname: what git gave for its primary file and for
\* the dependencies found on disk.
Candidates(docname) ==
    {e[2] : e \in {e \in Entries(eu.src_dates) \cup Entries(eu.dep_dates) :
                      /\ e[2] # None
                      /\ e[1] \in {doc2path(docname)}
                                  \cup Range(Get(eu.dep_paths, docname))}}

\* The record of docname is one of its candidates, or empty without any.
FromCandidates(docname) ==
    LET data == Get(git_last_updated, docname)
    IN  /\ Len(data) = 4
        /\ IF Candidates(docname) = {}
           THEN data[1] = None /\ data[3] = None
           ELSE \E c \in Candidates(docname) :
                    data[3] = c[3] /\ data[1] \in {None, c[1]}

\* What C25 says of the dependency calls `failed` whose git query exited
\* non-zero and of the dependencies missing on disk.
BestEffort(failed) ==
    /\ \A k \in failed :
           /\ eu.exit \notin {"none", "normal", "ValueError"} =>
                  k # Len(eu.calls)
           /\ \A n \in DOMAIN Get(eu.dep_dates, eu.calls[k][2]) :
                  Get(eu.dep_dates, eu.calls[k][2])[n] = None
    /\ Scanned =>
           \A docname \in Updated :
               /\ Missing(docname) # {} =>
                      Warning("dependency_not_found", docname, None)
                          \in eu.warnings
               /\ Assembled => FromCandidates(docname)

\* C25: a dependency that does not exist on disk is warned about for its
\* document and is no candidate; a dependency directory whose git query
\* (git ls-tree or git log) exits non-zero raises nothing out of the handler
\* and leaves no candidate; the record of every document is assembled from
\* the candidates of its primary file and of its other dependencies.
C25_BestEffort == BestEffort(FailedDeps({"ls-tree", "log"}))

----------------------------------------------------------------------------
(* Properties of env-merge-info, checked under SpecMerge. *)

\* C16: merging a store into itself changes no entry of it, and merging
\* the store of a read process gives the keys of both stores.
C16_MergeInfo ==
    /\ _env_merge_info(git_last_updated, git_last_updated) = git_last_updated
    /\ \A c \in Chunks :
           /\ _env_merge_info(other[c], other[c]) = other[c]
           /\ Keys(_env_merge_info(git_last_updated, other[c])) =
                  Keys(git_last_updated) \cup Keys(other[c])

\* The store after the merge of two read processes that read one document
\* each.
C16_Witness ==
    /\ Keys(git_last_updated) = {"d1", "d2"}
    /\ Keys(other["c1"]) = {"d1"}
    /\ Keys(other["c2"]) = {"d2"}
    /\ Get(git_last_updated, "d1") = Get(other["c1"], "d1")
    /\ Get(git_last_updated, "d2") = Get(other["c2"], "d2")
    /\ Get(other["c2"], "d2") # None

----------------------------------------------------------------------------
(* Properties of html-page-context, checked under SpecPage. *)

\* The page rendered last shows the author of its record.
AuthorShown ==
    /\ context.builder = "html"
    /\ context.last_updated # None
    /\ unpack(Get(git_last_updated, context.pagename))[3] # None
    /\ (config.git_show_author \/ config.git_show_all_authors)

RecordAuthor == unpack(Get(git_last_updated, context.pagename))[3]

RenderedAuthor == context.last_updated[Len(context.last_updated)].v

\* The alias keys that differ from name in letter case at most.
CaseMatches(aliases, name) ==
    {i \in DOMAIN aliases : lower(aliases[i][1]) = lower(name)}

\* C12: an author whose name differs from an alias key in letter case at
\* most is rendered as that key's display name, and an author matching no
\* key in any case is rendered unchanged.
C12_CaseInsensitive ==
    AuthorShown =>
        LET aliases == config.git_author_aliases
            matches == CaseMatches(aliases, RecordAuthor)
        IN  IF matches # {}
            THEN RenderedAuthor \in {aliases[i][2] : i \in matches}
            ELSE RenderedAuthor = RecordAuthor

\* The record of the page rendered last.
Rendered == context.builder = "html" /\ context.last_updated # None

RecordTimestamp == unpack(Get(git_last_updated, context.pagename))[1]

RecordManual == unpack(Get(git_last_updated, context.pagename))[4]

\* The texts of the pieces of s.
NamesOf(s) == [i \in DOMAIN s |-> s[i].v]

\* Where the piece of kind k is in last_updated, 0 if nowhere.
Position(k) ==
    LET at == {i \in DOMAIN context.last_updated :
                  context.last_updated[i].k = k}
    IN  IF at = {} THEN 0 ELSE Min(at)

\* C14: a page whose record has manual authors shows, with
\* git_show_manual_author, the line "Author: " with the manual authors,
\* then the date, and the git author only as ", edited by " after the date
\* and only when there is one and git_show_author or git_show_all_authors
\* is set; without git_show_manual_author no manual author is shown.
C14_ManualAuthors ==
    (Rendered /\ RecordManual # None) =>
        LET s == context.last_updated
            newline == Position("\n")
            head == SubSeq(s, 2, newline - 1)
            names == SelectSeq(head, LAMBDA x : x.k = "name")
        IN  IF config.git_show_manual_author
            THEN /\ s[1] = Lit("Author: ")
                 /\ newline > 2
                 /\ NamesOf(names) = RecordManual
                 /\ s[newline + 1] = Date(RecordTimestamp)
                 /\ Position("by ") = 0
                 /\ IF AuthorShown
                    THEN /\ Len(s) = newline + 4
                         /\ Position("edited by ") = newline + 3
                         /\ s[Len(s)].k = "name"
                    ELSE Len(s) = newline + 1
            ELSE /\ Position("Author: ") = 0
                 /\ \A i \in DOMAIN s :
                        s[i].k = "name" => s[i].v \notin Range(RecordManual)

\* A page with three manual authors and an author of git, both shown.
C14_Witness ==
    /\ Rendered
    /\ Len(RecordManual) = 3
    /\ config.git_show_manual_author
    /\ AuthorShown
    /\ Position("edited by ") > Position("\n")
    /\ Position("\n") > 0

====
